---- MODULE Spec2Model ----
(***************************************************************************)
(* Model of the three lint rules of the cypress-cleanup / page-rules       *)
(* plugins: require-after-with-before, require-clear-before-type and       *)
(* enforce-page-singleton.  A file is a sequence of top-level statements;  *)
(* the host visits its nodes depth-first and calls the listeners each rule *)
(* returned from create(context).                                          *)
(***************************************************************************)
EXTENDS Integers, Sequences, FiniteSets, TLC

VARIABLES tree, enabled, pc, pos, beforeNodes, afterFound, diags, prev, prevAcc

vars == <<tree, enabled, pc, pos, beforeNodes, afterFound, diags, prev, prevAcc>>

(* ---------- bounds ---------- *)
MaxStmts == 2
MaxMembers == 2
MaxLead == 1

(* ---------- syntax nodes ---------- *)
\* an absent (undefined / null) property of a node
NULL == [type |-> "Null"]

Identifier(n) == [type |-> "Identifier", name |-> n]

Call(c, a) == [type |-> "CallExpression", callee |-> c, arguments |-> a]

Member(o, p, c) ==
  [type |-> "MemberExpression", object |-> o, property |-> Identifier(p), computed |-> c]

\* class names are character sequences so that /Page$/ can be evaluated
Page == <<"P", "a", "g", "e">>
FooPage == <<"F", "o", "o">> \o Page
BarPage == <<"B", "a", "r">> \o Page
Pages == Page \o <<"s">>
Foopage == <<"F", "o", "o", "p", "a", "g", "e">>

New(n, a) == [type |-> "NewExpression", callee |-> Identifier(n), arguments |-> a]

Literal == [type |-> "Literal"]

Ctor(params) ==
  [type |-> "MethodDefinition", kind |-> "constructor",
   value |-> [type |-> "FunctionExpression", params |-> params]]

Method ==
  [type |-> "MethodDefinition", kind |-> "method",
   value |-> [type |-> "FunctionExpression", params |-> <<Identifier("x")>>]]

Prop(t, st, k, ro, acc, v, i) ==
  [type |-> t, static |-> st, key |-> Identifier(k), readonly |-> ro,
   accessibility |-> acc, value |-> v, initializer |-> i]

Class(n, abs, b) ==
  [type |-> "ClassDeclaration", id |-> Identifier(n), abstract |-> abs, body |-> b]

(* ---------- require-after-with-before ---------- *)
isHookCall(node, name) ==
  /\ node.type # "Null"
  /\ node.type = "CallExpression"
  /\ node.callee.type # "Null"
  /\ node.callee.type = "Identifier"
  /\ node.callee.name = name

\* tests the last argument instead of the first
hasFunctionCallbackLast(node) ==
  IF Len(node.arguments) = 0 THEN FALSE
  ELSE LET last == node.arguments[Len(node.arguments)]
       IN  last.type = "FunctionExpression" \/ last.type = "ArrowFunctionExpression"

hasFunctionCallback(node) ==
  IF Len(node.arguments) = 0 THEN FALSE
  ELSE LET first == node.arguments[1]
       IN  first.type = "FunctionExpression" \/ first.type = "ArrowFunctionExpression"

\* `first.type` is read without a guard: a null first argument is a TypeError
hasFunctionCallbackThrows(node) ==
  /\ Len(node.arguments) > 0
  /\ node.arguments[1].type = "Null"

(* ---------- require-clear-before-type ---------- *)
\* forgets that a computed access `x["clear"]()` is not a member call by name
isMemberCallWithNameComputed(node, name) ==
  /\ node.type # "Null"
  /\ node.type = "CallExpression"
  /\ node.callee.type # "Null"
  /\ node.callee.type = "MemberExpression"
  /\ node.callee.property.type # "Null"
  /\ node.callee.property.type = "Identifier"
  /\ node.callee.property.name = name

isMemberCallWithName(node, name) ==
  /\ node.type # "Null"
  /\ node.type = "CallExpression"
  /\ node.callee.type # "Null"
  /\ node.callee.type = "MemberExpression"
  /\ ~node.callee.computed
  /\ node.callee.property.type # "Null"
  /\ node.callee.property.type = "Identifier"
  /\ node.callee.property.name = name

(* ---------- enforce-page-singleton ---------- *)
EndsWith(s, suf) ==
  /\ Len(s) >= Len(suf)
  /\ SubSeq(s, Len(s) - Len(suf) + 1, Len(s)) = suf

classEndsWithPage(node) ==
  /\ node.type # "Null"
  /\ node.type = "ClassDeclaration"
  /\ node.id.type # "Null"
  /\ node.id.type = "Identifier"
  /\ EndsWith(node.id.name, Page)

\* reads a flag the parser never sets
isAbstractUnset(node) == node.type # "Null" /\ FALSE

isAbstract(node) == node.type # "Null" /\ node.abstract

\* Array.prototype.find: the first constructor member, NULL when there is none
getConstructor(node) ==
  LET body == node.body
      hits == {i \in 1..Len(body) :
                 body[i].type = "MethodDefinition" /\ body[i].kind = "constructor"}
  IN  IF hits = {} THEN NULL
      ELSE body[CHOOSE i \in hits : \A j \in hits : i <= j]

\* reads params off the method definition instead of its function value
hasZeroArgConstructorOrNoneShallow(node) ==
  LET ctor == getConstructor(node)
  IN  IF ctor.type = "Null" THEN TRUE
      ELSE LET params == <<>>
           IN  Len(params) = 0

hasZeroArgConstructorOrNone(node) ==
  LET ctor == getConstructor(node)
  IN  IF ctor.type = "Null" THEN TRUE
      ELSE LET fn == ctor.value
               params == IF fn.type # "Null" THEN fn.params ELSE <<>>
           IN  Len(params) = 0

\* forgets the readonly requirement
hasRequiredInstanceFieldMutable(node) ==
  LET className == node.id.name
      members == node.body
  IN  \E k \in 1..Len(members) :
        LET m == members[k]
        IN  /\ (m.type = "PropertyDefinition" \/ m.type = "ClassProperty")
            /\ m.static = TRUE
            /\ m.key.type = "Identifier"
            /\ m.key.name = "INSTANCE"
            /\ LET isPublic == IF m.accessibility # "" THEN m.accessibility = "public"
                               ELSE FALSE
                   v == IF m.value.type # "Null" THEN m.value ELSE m.initializer
                   isCorrectInit ==
                     /\ v.type # "Null"
                     /\ v.type = "NewExpression"
                     /\ v.callee.type = "Identifier"
                     /\ v.callee.name = className
                     /\ Len(v.arguments) = 0
               IN  isPublic /\ isCorrectInit

hasRequiredInstanceField(node) ==
  LET className == node.id.name
      members == node.body
  IN  \E k \in 1..Len(members) :
        LET m == members[k]
        IN  /\ (m.type = "PropertyDefinition" \/ m.type = "ClassProperty")
            /\ m.static = TRUE
            /\ m.key.type = "Identifier"
            /\ m.key.name = "INSTANCE"
            /\ LET isReadonly == m.readonly = TRUE
                   isPublic == IF m.accessibility # "" THEN m.accessibility = "public"
                               ELSE FALSE
                   v == IF m.value.type # "Null" THEN m.value ELSE m.initializer
                   isCorrectInit ==
                     /\ v.type # "Null"
                     /\ v.type = "NewExpression"
                     /\ v.callee.type = "Identifier"
                     /\ v.callee.name = className
                     /\ Len(v.arguments) = 0
               IN  isReadonly /\ isPublic /\ isCorrectInit

(* ---------- the files analysed ---------- *)
cy == Identifier("cy")

Arrow == [type |-> "ArrowFunctionExpression"]

Function == [type |-> "FunctionExpression"]

\* argument lists of a hook call: none, inline closures, non-function firsts,
\* and a hole where the first argument should be
HookArgs ==
  { <<>>, <<Arrow>>, <<Function>>, <<Literal>>, <<Identifier("fn")>>,
    <<Call(Identifier("makeFn"), <<>>)>>, <<Literal, Arrow>>, <<NULL>> }

HookStmts == { Call(Identifier(n), a) : n \in {"before", "after"}, a \in HookArgs }

\* what a `.type(...)` call can be chained on
Receivers ==
  { cy,
    Call(Member(cy, "clear", FALSE), <<>>),
    Call(Member(cy, "clear", TRUE), <<>>),
    Call(Member(cy, "focus", FALSE), <<>>),
    Call(Member(cy, "type", FALSE), <<Literal>>),
    Call(Identifier("clear"), <<>>) }

ChainStmts ==
  { Call(Member(r, "type", FALSE), <<Literal>>) : r \in Receivers }
    \cup { Call(Member(cy, "type", TRUE), <<Literal>>) }
    \cup { Call(Identifier("type"), <<Literal>>), Call(NULL, <<>>) }

Stmts == HookStmts \cup ChainStmts

ClassNames == {FooPage, Pages, Foopage}

\* the required field of class n, and the fields that miss it in one respect
GoodField(n) == Prop("PropertyDefinition", TRUE, "INSTANCE", TRUE, "public", New(n, <<>>), NULL)

Fields(n) ==
  { GoodField(n),
    Prop("ClassProperty", TRUE, "INSTANCE", TRUE, "public", NULL, New(n, <<>>)),
    Prop("PropertyDefinition", FALSE, "INSTANCE", TRUE, "public", New(n, <<>>), NULL),
    Prop("PropertyDefinition", TRUE, "instance", TRUE, "public", New(n, <<>>), NULL),
    Prop("PropertyDefinition", TRUE, "INSTANCE", FALSE, "public", New(n, <<>>), NULL),
    Prop("PropertyDefinition", TRUE, "INSTANCE", TRUE, "private", New(n, <<>>), NULL),
    Prop("PropertyDefinition", TRUE, "INSTANCE", TRUE, "", New(n, <<>>), NULL),
    Prop("PropertyDefinition", TRUE, "INSTANCE", TRUE, "public", New(BarPage, <<>>), NULL),
    Prop("PropertyDefinition", TRUE, "INSTANCE", TRUE, "public", New(n, <<Literal>>), NULL),
    Prop("PropertyDefinition", TRUE, "INSTANCE", TRUE, "public", NULL, NULL) }

RECURSIVE SeqsUpTo(_, _)
SeqsUpTo(S, n) ==
  IF n = 0 THEN {<<>>}
  ELSE LET shorter == SeqsUpTo(S, n - 1)
       IN  shorter \cup { Append(s, x) : s \in {q \in shorter : Len(q) = n - 1}, x \in S }

Ctors == { <<>>, <<Ctor(<<>>)>>, <<Ctor(<<Identifier("x")>>)>> }

Classes ==
  UNION { { Class(n, abs, c \o ms) :
              abs \in BOOLEAN, c \in Ctors, ms \in SeqsUpTo(Fields(n), MaxMembers) }
          : n \in ClassNames }

\* classes that appear next to other statements in one file
MixClasses ==
  { Class(FooPage, FALSE, <<>>), Class(FooPage, FALSE, <<GoodField(FooPage)>>) }

\* a file is a test file (calls, perhaps a class) or one page class
Trees ==
  SeqsUpTo(Stmts \cup MixClasses, MaxStmts) \cup { <<c>> : c \in Classes }

\* the files that another file of the same session may follow
LeadTrees == SeqsUpTo(Stmts \cup MixClasses, MaxLead)

Rules == {"require-after-with-before", "require-clear-before-type", "enforce-page-singleton"}

(* ---------- traversal ---------- *)
RECURSIVE NodesOf(_)
RECURSIVE NodesOfAll(_)
\* the nodes some listener is registered for, depth-first in source order
NodesOf(n) ==
  IF n.type = "CallExpression"
    THEN <<n>>
           \o (IF n.callee.type = "MemberExpression" THEN NodesOf(n.callee.object) ELSE <<>>)
           \o NodesOfAll(n.arguments)
  ELSE IF n.type = "ClassDeclaration" THEN <<n>>
  ELSE <<>>

NodesOfAll(s) == IF s = <<>> THEN <<>> ELSE NodesOf(Head(s)) \o NodesOfAll(Tail(s))

Traverse(t) == NodesOfAll(t)

Report(loc, id, data) == [node |-> loc, messageId |-> id, data |-> data]

(* ---------- listeners ---------- *)
\* accumulator hoisted to module level: nothing is reset per traversal
CreateHoisted == UNCHANGED <<beforeNodes, afterFound>>

\* create(context) of require-after-with-before: a fresh closure per traversal
Create ==
  /\ beforeNodes' = <<>>
  /\ afterFound' = FALSE

\* a teardown call only counts once a setup call has been recorded
HookCallExpressionOrdered(node, loc) ==
  /\ beforeNodes' = IF isHookCall(node, "before") /\ hasFunctionCallback(node)
                      THEN Append(beforeNodes, loc) ELSE beforeNodes
  /\ afterFound' = IF isHookCall(node, "after") /\ hasFunctionCallback(node)
                        /\ Len(beforeNodes) > 0
                     THEN TRUE ELSE afterFound

\* the setup side forgets the callback test
HookCallExpressionAnyBefore(node, loc) ==
  /\ beforeNodes' = IF isHookCall(node, "before")
                      THEN Append(beforeNodes, loc) ELSE beforeNodes
  /\ afterFound' = IF isHookCall(node, "after") /\ hasFunctionCallback(node)
                     THEN TRUE ELSE afterFound

HookCallExpression(node, loc) ==
  /\ beforeNodes' = IF isHookCall(node, "before") /\ hasFunctionCallback(node)
                      THEN Append(beforeNodes, loc) ELSE beforeNodes
  /\ afterFound' = IF isHookCall(node, "after") /\ hasFunctionCallback(node)
                     THEN TRUE ELSE afterFound

\* reports the most recently recorded setup call instead of the first
\* isHookCall without its `node.callee &&` guard: reading callee.type of a
\* call that has no callee is a TypeError as well
HookCallExpressionThrowsUnguarded(node) ==
  \/ node.callee.type = "Null"
  \/ isHookCall(node, "before") /\ hasFunctionCallbackThrows(node)
  \/ isHookCall(node, "after") /\ hasFunctionCallbackThrows(node)

\* whether the CallExpression listener of the hook rule throws on this node
HookCallExpressionThrows(node) ==
  \/ isHookCall(node, "before") /\ hasFunctionCallbackThrows(node)
  \/ isHookCall(node, "after") /\ hasFunctionCallbackThrows(node)

HookProgramExitLast ==
  IF Len(beforeNodes) > 0 /\ ~afterFound
    THEN <<Report(beforeNodes[Len(beforeNodes)], "missingAfter", <<>>)>>
    ELSE <<>>

HookProgramExit ==
  IF Len(beforeNodes) > 0 /\ ~afterFound
    THEN <<Report(beforeNodes[1], "missingAfter", <<>>)>>
    ELSE <<>>

TypeCallExpression(node, loc) ==
  IF ~isMemberCallWithName(node, "type") THEN <<>>
  ELSE LET objectExpr == node.callee.object
       IN  IF isMemberCallWithName(objectExpr, "clear") THEN <<>>
           ELSE <<Report(loc, "mustClearBeforeType", <<>>)>>

PageClassDeclaration(node, loc) ==
  IF ~classEndsWithPage(node) THEN <<>>
  ELSE IF isAbstract(node) THEN <<>>
  ELSE IF ~hasZeroArgConstructorOrNone(node) THEN <<>>
  ELSE IF ~hasRequiredInstanceField(node)
    THEN <<Report(loc, "missingInstance", node.id.name)>>
  ELSE <<>>

(* ---------- the state machine ---------- *)
Configs == SUBSET Rules \ {{}}

\* the plugin is loaded and some of its rules are switched on; no file yet
Init ==
  /\ tree = <<>>
  /\ enabled \in Configs
  /\ pc = "idle"
  /\ pos = 1
  /\ beforeNodes = <<>>
  /\ afterFound = FALSE
  /\ diags = <<>>
  /\ prev = <<>>
  /\ prevAcc = [setup |-> FALSE, teardown |-> FALSE]

\* the host starts the traversal of a file: every registered rule's create runs.
\* prevAcc remembers what the preceding traversal had accumulated.
Begin ==
  /\ pc' = "visiting"
  /\ pos' = 1
  /\ diags' = <<>>
  /\ prevAcc' = [setup |-> beforeNodes # <<>>, teardown |-> afterFound]
  /\ IF "require-after-with-before" \in enabled
       THEN Create ELSE UNCHANGED <<beforeNodes, afterFound>>
  /\ UNCHANGED enabled

\* the next file of the session; a file outside LeadTrees ends the session
Lint ==
  /\ pc \in {"idle", "done"}
  /\ pc = "done" => tree \in LeadTrees
  /\ \E t \in Trees : tree' = t
  /\ prev' = <<>>
  /\ Begin

\* the same tree is analysed once more
Relint ==
  /\ pc = "done"
  /\ UNCHANGED tree
  /\ prev' = <<diags>>
  /\ Begin

\* the hook listener takes the first argument off the node it inspects
\* (arguments.shift() for arguments[0]), so the tree does not survive the visit
CallExpressionShift ==
  /\ pc = "visiting"
  /\ pos <= Len(Traverse(tree))
  /\ LET node == Traverse(tree)[pos]
         shifted == [node EXCEPT !.arguments = Tail(@)]
         inspected == /\ "require-after-with-before" \in enabled
                      /\ isHookCall(node, "before") \/ isHookCall(node, "after")
                      /\ Len(node.arguments) > 0
     IN  /\ node.type = "CallExpression"
         /\ IF "require-after-with-before" \in enabled /\ HookCallExpressionThrows(node)
              THEN /\ pc' = "failed"
                   /\ diags' = <<>>
                   /\ UNCHANGED <<pos, beforeNodes, afterFound>>
              ELSE /\ IF "require-after-with-before" \in enabled
                        THEN HookCallExpression(node, pos)
                        ELSE UNCHANGED <<beforeNodes, afterFound>>
                   /\ diags' = diags \o (IF "require-clear-before-type" \in enabled
                                           THEN TypeCallExpression(node, pos) ELSE <<>>)
                   /\ pos' = pos + 1
                   /\ pc' = pc
         /\ tree' = IF inspected
                      THEN [k \in DOMAIN tree |-> IF tree[k] = node THEN shifted ELSE tree[k]]
                      ELSE tree
  /\ UNCHANGED <<enabled, prev, prevAcc>>

\* the listeners of the rules are merged into one object keyed by node type, so
\* the CallExpression listener of the clear-before-type rule replaces the hook
\* rule's whenever both rules are registered
CallExpressionMerged ==
  /\ pc = "visiting"
  /\ pos <= Len(Traverse(tree))
  /\ LET node == Traverse(tree)[pos]
         hookListens == /\ "require-after-with-before" \in enabled
                        /\ "require-clear-before-type" \notin enabled
     IN  /\ node.type = "CallExpression"
         /\ IF hookListens /\ HookCallExpressionThrows(node)
              THEN /\ pc' = "failed"
                   /\ diags' = <<>>
                   /\ UNCHANGED <<pos, beforeNodes, afterFound>>
              ELSE /\ IF hookListens
                        THEN HookCallExpression(node, pos)
                        ELSE UNCHANGED <<beforeNodes, afterFound>>
                   /\ diags' = diags \o (IF "require-clear-before-type" \in enabled
                                           THEN TypeCallExpression(node, pos) ELSE <<>>)
                   /\ pos' = pos + 1
                   /\ pc' = pc
  /\ UNCHANGED <<tree, enabled, prev, prevAcc>>

\* an exception in a listener leaves the traversal: the host gets the error
\* and no diagnostic list
CallExpression ==
  /\ pc = "visiting"
  /\ pos <= Len(Traverse(tree))
  /\ LET node == Traverse(tree)[pos]
     IN  /\ node.type = "CallExpression"
         /\ IF "require-after-with-before" \in enabled /\ HookCallExpressionThrows(node)
              THEN /\ pc' = "failed"
                   /\ diags' = <<>>
                   /\ UNCHANGED <<pos, beforeNodes, afterFound>>
              ELSE /\ IF "require-after-with-before" \in enabled
                        THEN HookCallExpression(node, pos)
                        ELSE UNCHANGED <<beforeNodes, afterFound>>
                   /\ diags' = diags \o (IF "require-clear-before-type" \in enabled
                                           THEN TypeCallExpression(node, pos) ELSE <<>>)
                   /\ pos' = pos + 1
                   /\ pc' = pc
  /\ UNCHANGED <<tree, enabled, prev, prevAcc>>

ClassDeclaration ==
  /\ pc = "visiting"
  /\ pos <= Len(Traverse(tree))
  /\ LET node == Traverse(tree)[pos]
     IN  /\ node.type = "ClassDeclaration"
         /\ diags' = diags \o (IF "enforce-page-singleton" \in enabled
                                 THEN PageClassDeclaration(node, pos) ELSE <<>>)
  /\ pos' = pos + 1
  /\ UNCHANGED <<tree, enabled, pc, beforeNodes, afterFound, prev, prevAcc>>

ProgramExit ==
  /\ pc = "visiting"
  /\ pos > Len(Traverse(tree))
  /\ diags' = diags \o (IF "require-after-with-before" \in enabled
                          THEN HookProgramExit ELSE <<>>)
  /\ pc' = "done"
  /\ UNCHANGED <<tree, enabled, pos, beforeNodes, afterFound, prev, prevAcc>>

Next == Lint \/ Relint \/ CallExpression \/ ClassDeclaration \/ ProgramExit

Spec == Init /\ [][Next]_vars

TypeOK ==
  /\ pc \in {"idle", "visiting", "done", "failed"}
  /\ afterFound \in BOOLEAN
  /\ Len(prev) <= 1

(* ---------- vocabulary of the properties ---------- *)
HookOn == "require-after-with-before" \in enabled
TypeOn == "require-clear-before-type" \in enabled
PageOn == "enforce-page-singleton" \in enabled

Visit == Traverse(tree)

IsFunctionValue(a) == a.type \in {"FunctionExpression", "ArrowFunctionExpression"}

\* a call of the bare identifier name
IsBareCall(n, name) == n.type = "CallExpression" /\ n.callee = Identifier(name)

\* ... whose first argument is an inline function
IsQualifyingHook(n, name) ==
  /\ IsBareCall(n, name)
  /\ n.arguments # <<>>
  /\ IsFunctionValue(n.arguments[1])

SetupLocs(t) == {i \in DOMAIN Traverse(t) : IsQualifyingHook(Traverse(t)[i], "before")}

TeardownLocs(t) == {i \in DOMAIN Traverse(t) : IsQualifyingHook(Traverse(t)[i], "after")}

MinOf(S) == CHOOSE x \in S : \A y \in S : x <= y

DiagsOf(id) == {k \in DOMAIN diags : diags[k].messageId = id}

DiagsAt(loc, id) == {k \in DOMAIN diags : diags[k].messageId = id /\ diags[k].node = loc}

\* the elements of S in increasing order
RECURSIVE Ascending(_)
Ascending(S) == IF S = {} THEN <<>> ELSE <<MinOf(S)>> \o Ascending(S \ {MinOf(S)})

(* ---------- C1 ---------- *)
\* C1: when qualifying before calls are visited and no qualifying after call,
\* nothing is reported while the traversal runs, and Program:exit reports exactly
\* one missingAfter, anchored at the first qualifying before call.
C1_OneMissingAfterAtFirstBefore ==
  (HookOn /\ SetupLocs(tree) # {} /\ TeardownLocs(tree) = {}) =>
     /\ pc = "visiting" => DiagsOf("missingAfter") = {}
     /\ pc = "done" =>
          /\ Cardinality(DiagsOf("missingAfter")) = 1
          /\ \A k \in DiagsOf("missingAfter") : diags[k].node = MinOf(SetupLocs(tree))

C1_Witness ==
  /\ pc = "done"
  /\ HookOn
  /\ Cardinality(SetupLocs(tree)) >= 2
  /\ TeardownLocs(tree) = {}
  /\ \A k \in DiagsOf("missingAfter") : diags[k].node = MinOf(SetupLocs(tree))
  /\ Cardinality(DiagsOf("missingAfter")) = 1

(* ---------- C2 ---------- *)
\* C2: when both a qualifying before and a qualifying after are visited, in any
\* order, no missingAfter is ever reported.
C2_PairedHooksSilent ==
  (HookOn /\ pc \in {"visiting", "done"}
     /\ SetupLocs(tree) # {} /\ TeardownLocs(tree) # {}) =>
       DiagsOf("missingAfter") = {}

C2_Witness ==
  /\ pc = "done"
  /\ HookOn
  /\ SetupLocs(tree) # {}
  /\ TeardownLocs(tree) # {}
  /\ MinOf(TeardownLocs(tree)) < MinOf(SetupLocs(tree))
  /\ DiagsOf("missingAfter") = {}

(* ---------- C3 ---------- *)
\* C3: when no qualifying before is visited, no missingAfter is reported,
\* whatever after calls the file has.
C3_NoSetupNoDiagnostic ==
  (HookOn /\ pc \in {"visiting", "done"} /\ SetupLocs(tree) = {}) =>
     DiagsOf("missingAfter") = {}

C3_Witness ==
  /\ pc = "done"
  /\ HookOn
  /\ SetupLocs(tree) = {}
  /\ \E i \in DOMAIN Visit : IsBareCall(Visit[i], "before")
  /\ TeardownLocs(tree) # {}
  /\ DiagsOf("missingAfter") = {}

(* ---------- C8 ---------- *)
\* C8: visiting a call of before or after changes the setup list or the
\* teardown flag exactly when its first argument is an inline function: a
\* qualifying before is appended, a qualifying after sets the flag, and a call
\* without arguments or with another first argument changes neither.
C8_OnlyFunctionFirstArgCounts ==
  [][ (HookOn /\ pc = "visiting" /\ pos <= Len(Visit) /\ pos' = pos + 1) =>
        LET n == Visit[pos]
        IN  /\ beforeNodes' = IF IsQualifyingHook(n, "before")
                                THEN Append(beforeNodes, pos) ELSE beforeNodes
            /\ afterFound' = (afterFound \/ IsQualifyingHook(n, "after")) ]_vars

\* the only after call has a non-function first argument: still reported
C8_Witness ==
  /\ pc = "done"
  /\ HookOn
  /\ SetupLocs(tree) # {}
  /\ \E i \in DOMAIN Visit :
       /\ IsBareCall(Visit[i], "after")
       /\ Visit[i].arguments # <<>>
  /\ TeardownLocs(tree) = {}
  /\ Cardinality(DiagsOf("missingAfter")) = 1

(* ---------- C10 ---------- *)
\* C10: in every traversal the accumulator holds exactly the qualifying calls
\* of the current file visited so far (so it starts empty / false), and the
\* missingAfter outcome of a finished file is the one the file alone determines,
\* whatever files were analysed before it.
ExpectedMissingAfter(t) ==
  IF SetupLocs(t) # {} /\ TeardownLocs(t) = {}
    THEN <<Report(MinOf(SetupLocs(t)), "missingAfter", <<>>)>>
    ELSE <<>>

C10_AccumulatorPerFile ==
  (HookOn /\ pc \in {"visiting", "done"}) =>
     /\ beforeNodes = Ascending(SetupLocs(tree) \cap 1..(pos - 1))
     /\ afterFound = (TeardownLocs(tree) \cap 1..(pos - 1) # {})
     /\ pc = "done" =>
          [k \in 1..Cardinality(DiagsOf("missingAfter")) |->
             diags[Ascending(DiagsOf("missingAfter"))[k]]] = ExpectedMissingAfter(tree)

\* an earlier file had a qualifying after, this one has only a before
C10_Witness ==
  /\ pc = "done"
  /\ HookOn
  /\ prev = <<>>
  /\ prevAcc.teardown
  /\ SetupLocs(tree) # {}
  /\ TeardownLocs(tree) = {}
  /\ Cardinality(DiagsOf("missingAfter")) = 1

(* ---------- C4 ---------- *)
IsPageClass(c) == c.type = "ClassDeclaration" /\ EndsWith(c.id.name, Page)

CtorsOf(c) ==
  {k \in DOMAIN c.body : c.body[k].type = "MethodDefinition" /\ c.body[k].kind = "constructor"}

DefaultConstructible(c) ==
  CtorsOf(c) = {} \/ \E k \in CtorsOf(c) : c.body[k].value.params = <<>>

IsInstanceMember(m) ==
  m.type \in {"PropertyDefinition", "ClassProperty"} /\ m.key = Identifier("INSTANCE")

InitOf(m) == IF m.value # NULL THEN m.value ELSE m.initializer

IsSingletonField(m, name) ==
  /\ IsInstanceMember(m)
  /\ m.static
  /\ m.readonly
  /\ m.accessibility = "public"
  /\ InitOf(m) = New(name, <<>>)

HasSingletonField(c) == \E k \in DOMAIN c.body : IsSingletonField(c.body[k], c.id.name)

\* C4: a finished traversal holds, for every concrete default-constructible
\* class named ...Page, no missingInstance at the class when some member is the
\* required public static readonly INSTANCE = new <ClassName>(), and otherwise
\* exactly one, anchored at the class and carrying the class name.
C4_SingletonFieldRequired ==
  (PageOn /\ pc = "done") =>
     \A i \in DOMAIN Visit :
        LET c == Visit[i]
        IN  (IsPageClass(c) /\ ~c.abstract /\ DefaultConstructible(c)) =>
              IF HasSingletonField(c)
                THEN DiagsAt(i, "missingInstance") = {}
                ELSE /\ Cardinality(DiagsAt(i, "missingInstance")) = 1
                     /\ \A k \in DiagsAt(i, "missingInstance") : diags[k].data = c.id.name

\* two near-matching INSTANCE members, one diagnostic
C4_Witness ==
  /\ pc = "done"
  /\ PageOn
  /\ \E i \in DOMAIN Visit :
       LET c == Visit[i]
       IN  /\ IsPageClass(c) /\ ~c.abstract /\ DefaultConstructible(c)
           /\ Cardinality({k \in DOMAIN c.body : IsInstanceMember(c.body[k])}) >= 2
           /\ ~HasSingletonField(c)
           /\ Cardinality(DiagsAt(i, "missingInstance")) = 1

(* ---------- C5 ---------- *)
\* C5: an abstract class named ...Page never gets a missingInstance diagnostic.
C5_AbstractPageSkipped ==
  (PageOn /\ pc \in {"visiting", "done"}) =>
     \A i \in DOMAIN Visit :
        (IsPageClass(Visit[i]) /\ Visit[i].abstract) => DiagsAt(i, "missingInstance") = {}

C5_Witness ==
  /\ pc = "done"
  /\ PageOn
  /\ \E i \in DOMAIN Visit :
       LET c == Visit[i]
       IN  /\ IsPageClass(c) /\ c.abstract
           /\ DefaultConstructible(c)
           /\ ~HasSingletonField(c)
           /\ DiagsAt(i, "missingInstance") = {}

(* ---------- C6 ---------- *)
HasParameterizedCtor(c) ==
  \E k \in CtorsOf(c) : Len(c.body[k].value.params) >= 1

\* C6: a class named ...Page whose constructor takes parameters never gets a
\* missingInstance diagnostic.
C6_ParameterizedCtorSkipped ==
  (PageOn /\ pc \in {"visiting", "done"}) =>
     \A i \in DOMAIN Visit :
        (IsPageClass(Visit[i]) /\ HasParameterizedCtor(Visit[i])) =>
           DiagsAt(i, "missingInstance") = {}

C6_Witness ==
  /\ pc = "done"
  /\ PageOn
  /\ \E i \in DOMAIN Visit :
       LET c == Visit[i]
       IN  /\ IsPageClass(c) /\ ~c.abstract
           /\ HasParameterizedCtor(c)
           /\ ~HasSingletonField(c)
           /\ DiagsAt(i, "missingInstance") = {}

(* ---------- C7 ---------- *)
IsNamedMemberCall(n, name) ==
  /\ n.type = "CallExpression"
  /\ n.callee.type = "MemberExpression"
  /\ n.callee.computed = FALSE
  /\ n.callee.property = Identifier(name)

NeedsClear(n) ==
  IsNamedMemberCall(n, "type") /\ ~IsNamedMemberCall(n.callee.object, "clear")

\* C7: every visited .type(...) member call whose receiver is not a .clear()
\* member call has exactly one mustClearBeforeType anchored at it; every other
\* node, and every node not visited yet, has none.
C7_ClearBeforeType ==
  (TypeOn /\ pc \in {"visiting", "done"}) =>
     \A i \in DOMAIN Visit :
        Cardinality(DiagsAt(i, "mustClearBeforeType"))
          = IF i < pos /\ NeedsClear(Visit[i]) THEN 1 ELSE 0

\* x.clear().type() passes, x.focus().type() is reported once
C7_Witness ==
  /\ pc = "done"
  /\ TypeOn
  /\ \E i, j \in DOMAIN Visit :
       /\ IsNamedMemberCall(Visit[i], "type")
       /\ IsNamedMemberCall(Visit[i].callee.object, "clear")
       /\ DiagsAt(i, "mustClearBeforeType") = {}
       /\ IsNamedMemberCall(Visit[j], "type")
       /\ IsNamedMemberCall(Visit[j].callee.object, "focus")
       /\ Cardinality(DiagsAt(j, "mustClearBeforeType")) = 1

(* ---------- C9 ---------- *)
\* C9: a second traversal of the same tree ends with the diagnostic list the
\* first one ended with.
C9_Idempotent ==
  (pc = "done" /\ prev # <<>>) => diags = prev[1]

C9_Witness ==
  /\ pc = "done"
  /\ prev # <<>>
  /\ enabled = Rules
  /\ DiagsOf("missingAfter") # {}
  /\ DiagsOf("mustClearBeforeType") # {}
  /\ diags = prev[1]

(* ---------- C11 ---------- *)
\* the diagnostics of one message, in report order
RuleDiags(id) ==
  [k \in 1..Cardinality(DiagsOf(id)) |-> diags[Ascending(DiagsOf(id))[k]]]

NeedsInstance(c) ==
  IsPageClass(c) /\ ~c.abstract /\ DefaultConstructible(c) /\ ~HasSingletonField(c)

\* what each rule owes a tree, as a function of the tree alone
ExpectedMustClear(t) ==
  LET locs == Ascending({i \in DOMAIN Traverse(t) : NeedsClear(Traverse(t)[i])})
  IN  [k \in DOMAIN locs |-> Report(locs[k], "mustClearBeforeType", <<>>)]

ExpectedMissingInstance(t) ==
  LET locs == Ascending({i \in DOMAIN Traverse(t) : NeedsInstance(Traverse(t)[i])})
  IN  [k \in DOMAIN locs |-> Report(locs[k], "missingInstance", Traverse(t)[locs[k]].id.name)]

\* C11: at the end of a traversal the diagnostics of each rule are determined
\* by the tree and by that rule's own registration, whichever other rules are
\* registered; and the hook accumulator is never touched while its rule is not
\* registered.
C11_RuleIndependence ==
  /\ pc = "done" =>
       /\ RuleDiags("missingAfter") = IF HookOn THEN ExpectedMissingAfter(tree) ELSE <<>>
       /\ RuleDiags("mustClearBeforeType") = IF TypeOn THEN ExpectedMustClear(tree) ELSE <<>>
       /\ RuleDiags("missingInstance") = IF PageOn THEN ExpectedMissingInstance(tree) ELSE <<>>
  /\ ~HookOn => (beforeNodes = <<>> /\ ~afterFound)

\* the hook rule reports although the two other rules, which have findings of
\* their own in this file or not, are registered next to it
C11_Witness ==
  /\ pc = "done"
  /\ enabled = Rules
  /\ ExpectedMissingAfter(tree) # <<>>
  /\ ExpectedMustClear(tree) # <<>>
  /\ RuleDiags("missingAfter") = ExpectedMissingAfter(tree)
  /\ RuleDiags("mustClearBeforeType") = ExpectedMustClear(tree)

(* ---------- C12 ---------- *)
HasNoCallee(n) == n.type = "CallExpression" /\ n.callee = NULL

HasNullFirstArgument(n) ==
  /\ IsBareCall(n, "before") \/ IsBareCall(n, "after")
  /\ n.arguments # <<>>
  /\ n.arguments[1] = NULL

====
